---------------------------- MODULE Spec2Model ----------------------------
(***************************************************************************)
(* Model of app.py (customer feedback analysis dashboard).                 *)
(*                                                                         *)
(* Strings are sequences of Unicode code points, so that substring search, *)
(* the regular expression of extract_keywords, str.lower and str.split are *)
(* computed character by character as Python computes them.                *)
(*                                                                         *)
(* A cell of the data frame is a record [kind, s, date]:                   *)
(*   kind = "nan"  a missing value (NaN / None)                            *)
(*   kind = "str"  a Python str, s its code points                         *)
(*   kind = "ts"   a pandas Timestamp at midnight, date = <<y, m, d>>      *)
(*   kind = "nat"  pandas NaT                                              *)
(***************************************************************************)
EXTENDS Integers, Sequences, FiniteSets

VARIABLES
    text,            \* argument of one call of analyze_sentiment / extract_keywords
    label,           \* value returned by analyze_sentiment(text)
    words,           \* value returned by extract_keywords(text)
    fpc,             \* position of the single-call harness
    raw,             \* the table as uploaded (never modified)
    df,              \* the working data frame: a sequence of rows
    text_column,     \* st.selectbox choice, line 159
    date_column,     \* st.selectbox choice, line 166
    sentiment,       \* df['sentiment'], line 182
    kidx,            \* position of the loop of line 216 in df[text_column].dropna()
    all_keywords,    \* line 215
    keyword_counts,  \* line 220: Counter, as a sequence of [term, count] in insertion order
    top_keywords,    \* line 221
    month,           \* df['month'], line 256
    monthly_sentiment, \* line 257
    pc               \* position in main()

vars == << text, label, words, fpc, raw, df, text_column, date_column, sentiment,
           kidx, all_keywords, keyword_counts, top_keywords, month, monthly_sentiment, pc >>

fnvars == << text, label, words, fpc >>

mainvars == << raw, df, text_column, date_column, sentiment, kidx, all_keywords,
               keyword_counts, top_keywords, month, monthly_sentiment, pc >>

-----------------------------------------------------------------------------
(* Bounds of the model *)

\* longest text (in characters) drawn for a single call
MaxLen == 4

\* largest number of rows of a generated table
MaxRows == 2

-----------------------------------------------------------------------------
(* Values *)

\* the three labels: '긍정', '부정', '중립'
POSITIVE == "Positive"
NEGATIVE == "Negative"
NEUTRAL == "Neutral"

\* '없음', the "no date column" entry of the second selectbox
NONE_COLUMN == "none"

NaN == [kind |-> "nan", s |-> << >>, date |-> << >>]
NaT == [kind |-> "nat", s |-> << >>, date |-> << >>]
Str(s) == [kind |-> "str", s |-> s, date |-> << >>]
Timestamp(d) == [kind |-> "ts", s |-> << >>, date |-> d]

\* pd.isna on a scalar
isna(v) == v.kind \in {"nan", "nat"}

\* two decimal digits / four decimal digits of a number, as code points
Digits2(n) == << 48 + ((n \div 10) % 10), 48 + (n % 10) >>
Digits4(n) == << 48 + ((n \div 1000) % 10), 48 + ((n \div 100) % 10) >> \o Digits2(n)

\* str(v): a str is itself, a Timestamp at midnight prints as 'YYYY-MM-DD 00:00:00'
str(v) ==
    IF v.kind = "str" THEN v.s
    ELSE IF v.kind = "ts"
         THEN Digits4(v.date[1]) \o <<45>> \o Digits2(v.date[2]) \o <<45>>
              \o Digits2(v.date[3]) \o <<32, 48, 48, 58, 48, 48, 58, 48, 48>>
    ELSE IF v.kind = "nat" THEN <<78, 97, 84>>
    ELSE <<110, 97, 110>>

\* str.lower on the characters of the model: A-Z map to a-z, Hangul, digits,
\* punctuation and white space are unchanged
LowerChar(c) == IF c >= 65 /\ c <= 90 THEN c + 32 ELSE c
lower(s) == [i \in 1..Len(s) |-> LowerChar(s[i])]

\* Python's  word in text  for two str
IsSubstring(word, t) ==
    \E i \in 0..(Len(t) - Len(word)) : SubSeq(t, i + 1, i + Len(word)) = word

-----------------------------------------------------------------------------
(* analyze_sentiment *)

\* '좋다', '좋은', '만족', '훌륭', '최고', '감사', '추천', '훌륭한',
\* '빠르다', '빠른', '편리', '편한', '친절', '도움', '해결', '완벽'
positive_words ==
    << <<51339, 45796>>, <<51339, 51008>>, <<47564, 51313>>, <<54988, 47469>>,
       <<52572, 44256>>, <<44048, 49324>>, <<52628, 52380>>, <<54988, 47469, 54620>>,
       <<48736, 47476, 45796>>, <<48736, 47480>>, <<54200, 47532>>, <<54200, 54620>>,
       <<52828, 51208>>, <<46020, 50880>>, <<54644, 44208>>, <<50756, 48317>> >>

\* '나쁘다', '나쁜', '불만', '문제', '느리다', '느린', '불편', '어려움',
\* '실망', '화나다', '짜증', '복잡', '오류', '오래', '지연', '불친절'
negative_words ==
    << <<45208, 49240, 45796>>, <<45208, 49244>>, <<48520, 47564>>, <<47928, 51228>>,
       <<45712, 47532, 45796>>, <<45712, 47536>>, <<48520, 54200>>, <<50612, 47140, 50880>>,
       <<49892, 47581>>, <<54868, 45208, 45796>>, <<51676, 51613>>, <<48373, 51105>>,
       <<50724, 47448>>, <<50724, 47000>>, <<51648, 50672>>, <<48520, 52828, 51208>> >>

\* a slip of the count: any(...) instead of sum(...)
CountAny(word_list, t, i) ==
    IF \E k \in i..Len(word_list) : IsSubstring(word_list[k], t) THEN 1 ELSE 0

\* sum(1 for word in word_list[i..] if word in t)
RECURSIVE CountFrom(_, _, _)
CountFrom(word_list, t, i) ==
    IF i > Len(word_list) THEN 0
    ELSE (IF IsSubstring(word_list[i], t) THEN 1 ELSE 0) + CountFrom(word_list, t, i + 1)

positive_count(t) == CountFrom(positive_words, t, 1)
negative_count(t) == CountFrom(negative_words, t, 1)

\* a slip of the comparison: a tie is no longer neutral
analyze_sentiment_tie_positive(v) ==
    IF isna(v) \/ (v.kind = "str" /\ v.s = << >>) THEN NEUTRAL
    ELSE LET t == lower(str(v))
         IN  IF positive_count(t) >= negative_count(t) THEN POSITIVE
             ELSE IF negative_count(t) > positive_count(t) THEN NEGATIVE
             ELSE NEUTRAL

\* a slip of the order of the tests: a tie is negative
analyze_sentiment_tie_negative(v) ==
    IF isna(v) \/ (v.kind = "str" /\ v.s = << >>) THEN NEUTRAL
    ELSE LET t == lower(str(v))
         IN  IF negative_count(t) >= positive_count(t) THEN NEGATIVE ELSE POSITIVE

analyze_sentiment(v) ==
    IF isna(v) \/ (v.kind = "str" /\ v.s = << >>) THEN NEUTRAL
    ELSE LET t == lower(str(v))
         IN  IF positive_count(t) > negative_count(t) THEN POSITIVE
             ELSE IF negative_count(t) > positive_count(t) THEN NEGATIVE
             ELSE NEUTRAL

-----------------------------------------------------------------------------
(* extract_keywords *)

\* \s of the regular expression and the separators of str.split, among the
\* code points below 256
IsSpace(c) == c \in {9, 10, 11, 12, 13, 28, 29, 30, 31, 32, 133, 160}

\* the characters  [가-힣a-zA-Z0-9\s]  that re.sub keeps
IsKept(c) ==
    \/ (c >= 44032 /\ c <= 55203)
    \/ (c >= 97 /\ c <= 122)
    \/ (c >= 65 /\ c <= 90)
    \/ (c >= 48 /\ c <= 57)
    \/ IsSpace(c)

\* re.sub(r'[^가-힣a-zA-Z0-9\s]', ' ', s)
re_sub(s) == [i \in 1..Len(s) |-> IF IsKept(s[i]) THEN s[i] ELSE 32]

\* str.split() of s[i..], cur the word being read
RECURSIVE SplitFrom(_, _, _)
SplitFrom(s, i, cur) ==
    IF i > Len(s) THEN (IF cur = << >> THEN << >> ELSE << cur >>)
    ELSE IF IsSpace(s[i])
         THEN (IF cur = << >> THEN << >> ELSE << cur >>) \o SplitFrom(s, i + 1, << >>)
         ELSE SplitFrom(s, i + 1, Append(cur, s[i]))

split(s) == SplitFrom(s, 1, << >>)

\* '그', '이', '저', '것', '들', '의', '가', '을', '를', '에', '와', '과', '로', '으로',
\* '는', '은', '도', '만', '부터', '까지', '에서', '에게', '한테', '께', '서', '부터'
stopwords ==
    << <<44536>>, <<51060>>, <<51200>>, <<44163>>, <<46308>>, <<51032>>,
       <<44032>>, <<51012>>, <<47484>>, <<50640>>, <<50752>>, <<44284>>,
       <<47196>>, <<51004, 47196>>, <<45716>>, <<51008>>, <<46020>>, <<47564>>,
       <<48512, 53552>>, <<44620, 51648>>, <<50640, 49436>>, <<50640, 44172>>,
       <<54620, 53580>>, <<44760>>, <<49436>>, <<48512, 53552>> >>

\* word in stopwords
InList(word, word_list) == \E i \in 1..Len(word_list) : word_list[i] = word

\* [word for word in ws if keep(word)]
RECURSIVE FilterWords(_, _)
FilterWords(ws, i) ==
    IF i > Len(ws) THEN << >>
    ELSE (IF Len(ws[i]) > 1 /\ ~InList(ws[i], stopwords) THEN << ws[i] >> ELSE << >>)
         \o FilterWords(ws, i + 1)

\* a slip of the filter: only single-character stopwords are looked up
RECURSIVE FilterWordsShort(_, _)
FilterWordsShort(ws, i) ==
    IF i > Len(ws) THEN << >>
    ELSE (IF Len(ws[i]) > 1 THEN << ws[i] >> ELSE << >>) \o FilterWordsShort(ws, i + 1)

extract_keywords_no_stopwords(v) ==
    IF isna(v) \/ (v.kind = "str" /\ v.s = << >>) THEN << >>
    ELSE FilterWordsShort(split(re_sub(str(v))), 1)

extract_keywords(v) ==
    IF isna(v) \/ (v.kind = "str" /\ v.s = << >>) THEN << >>
    ELSE FilterWords(split(re_sub(str(v))), 1)

-----------------------------------------------------------------------------
(* One call of each of the two text functions on an arbitrary value *)

\* '불', '만', '족', 'A', 'a', '!', ' ', '에', '서': enough to write the lexicon
\* terms '불만' and '만족', the stopwords '만', '에', '서', '에서', Latin letters of
\* both cases, punctuation and white space
Alphabet == {48520, 47564, 51313, 65, 97, 33, 32, 50640, 49436}

BoundedTexts == UNION {[1..n -> Alphabet] : n \in 0..MaxLen}

\* positive term, a space, negative term
TieTexts ==
    {positive_words[i] \o <<32>> \o negative_words[j] :
        i \in 1..Len(positive_words), j \in 1..Len(negative_words)}

\* 'Good 에서 good! a 만 b2'
CraftedText ==
    <<71, 111, 111, 100, 32, 50640, 49436, 32, 103, 111, 111, 100, 33, 32, 97, 32,
      47564, 32, 98, 50>>

TextInputs == {NaN} \cup {Str(s) : s \in BoundedTexts \cup TieTexts \cup {CraftedText}}

MainIdle ==
    /\ raw = << >>
    /\ df = << >>
    /\ text_column = NONE_COLUMN
    /\ date_column = NONE_COLUMN
    /\ sentiment = << >>
    /\ kidx = 0
    /\ all_keywords = << >>
    /\ keyword_counts = << >>
    /\ top_keywords = << >>
    /\ month = << >>
    /\ monthly_sentiment = << >>
    /\ pc = "idle"

TextInit ==
    /\ text \in TextInputs
    /\ label = "unset"
    /\ words = << >>
    /\ fpc = "input"
    /\ MainIdle

CallAnalyzeSentiment ==
    /\ fpc = "input"
    /\ label' = analyze_sentiment(text)
    /\ fpc' = "classified"
    /\ UNCHANGED << text, words >>
    /\ UNCHANGED mainvars

CallExtractKeywords ==
    /\ fpc = "classified"
    /\ words' = extract_keywords(text)
    /\ fpc' = "extracted"
    /\ UNCHANGED << text, label >>
    /\ UNCHANGED mainvars

TextNext == CallAnalyzeSentiment \/ CallExtractKeywords

SpecText == TextInit /\ [][TextNext]_vars

-----------------------------------------------------------------------------
(* pandas helpers used by main *)

IsDigit(c) == c >= 48 /\ c <= 57

IsLeap(y) == (y % 4 = 0 /\ y % 100 # 0) \/ y % 400 = 0

DaysInMonth(y, m) ==
    IF m = 2 THEN (IF IsLeap(y) THEN 29 ELSE 28)
    ELSE IF m \in {4, 6, 9, 11} THEN 30 ELSE 31

\* the date a str of the form 'YYYY-MM-DD' denotes, << >> for any other str
\* (the tables of the model hold no other date notation)
ParseDate(s) ==
    IF /\ Len(s) = 10
       /\ s[5] = 45 /\ s[8] = 45
       /\ \A i \in {1, 2, 3, 4, 6, 7, 9, 10} : IsDigit(s[i])
    THEN LET y == (s[1] - 48) * 1000 + (s[2] - 48) * 100 + (s[3] - 48) * 10 + (s[4] - 48)
             m == (s[6] - 48) * 10 + (s[7] - 48)
             d == (s[9] - 48) * 10 + (s[10] - 48)
         IN  IF y >= 1 /\ m >= 1 /\ m <= 12 /\ d >= 1 /\ d <= DaysInMonth(y, m)
             THEN << y, m, d >> ELSE << >>
    ELSE << >>

\* pd.to_datetime(v, errors='coerce') on one cell
to_datetime(v) ==
    IF v.kind = "ts" THEN v
    ELSE IF v.kind = "str" /\ ParseDate(v.s) # << >> THEN Timestamp(ParseDate(v.s))
    ELSE NaT

\* Series.dt.to_period('M') on one cell: << year, month >>, NaT stays NaT
to_period_M(v) == IF v.kind = "ts" THEN << v.date[1], v.date[2] >> ELSE << >>

\* chronological order of two periods
PeriodBefore(a, b) == a[1] * 12 + a[2] < b[1] * 12 + b[2]

\* the periods of S in ascending order (groupby sorts its keys)
RECURSIVE SortPeriods(_)
SortPeriods(S) ==
    IF S = {} THEN << >>
    ELSE LET first == CHOOSE a \in S : \A b \in S \ {a} : PeriodBefore(a, b)
         IN  << first >> \o SortPeriods(S \ {first})

\* the labels of S in the order of their strings: '긍정' < '부정' < '중립'
SortLabels(S) ==
    (IF POSITIVE \in S THEN << POSITIVE >> ELSE << >>)
    \o (IF NEGATIVE \in S THEN << NEGATIVE >> ELSE << >>)
    \o (IF NEUTRAL \in S THEN << NEUTRAL >> ELSE << >>)

\* a slip of the grouping: rows without a month are counted in the first bucket
groupby_counting_NaT(months, sent) ==
    LET rows == {i \in 1..Len(months) : months[i] # << >>}
        index == SortPeriods({months[i] : i \in rows})
        columns == SortLabels({sent[i] : i \in rows})
    IN  [present |-> TRUE,
         index |-> index,
         columns |-> columns,
         data |-> [k \in {<< index[a], columns[b] >> : a \in 1..Len(index), b \in 1..Len(columns)} |->
                     Cardinality({i \in 1..Len(months) :
                        /\ sent[i] = k[2]
                        /\ \/ months[i] = k[1]
                           \/ (months[i] = << >> /\ k[1] = index[1])})]]

\* df.groupby(['month', 'sentiment']).size().unstack(fill_value=0):
\* rows whose month is NaT belong to no group; the index holds the months and
\* the columns the labels of the groups, both sorted; a missing pair is 0
groupby_size_unstack(months, sent) ==
    LET rows == {i \in 1..Len(months) : months[i] # << >>}
        index == SortPeriods({months[i] : i \in rows})
        columns == SortLabels({sent[i] : i \in rows})
    IN  [present |-> TRUE,
         index |-> index,
         columns |-> columns,
         data |-> [k \in {<< index[a], columns[b] >> : a \in 1..Len(index), b \in 1..Len(columns)} |->
                     Cardinality({i \in rows : months[i] = k[1] /\ sent[i] = k[2]})]]

\* Series.dropna() as the sequence of the remaining values
RECURSIVE dropna(_, _)
dropna(col, i) ==
    IF i > Len(col) THEN << >>
    ELSE (IF isna(col[i]) THEN << >> ELSE << col[i] >>) \o dropna(col, i + 1)

\* df[c] as a sequence of cells
Column(frame, c) == [i \in 1..Len(frame) |-> frame[i][c]]

-----------------------------------------------------------------------------
(* collections.Counter *)

\* position of term among the keys of counter, 0 if absent
KeyIndex(counter, term) ==
    IF \E i \in 1..Len(counter) : counter[i].term = term
    THEN CHOOSE i \in 1..Len(counter) : counter[i].term = term
    ELSE 0

\* a slip of the update: a repeated term is entered again instead of counted
CounterAddNoMerge(counter, term) == Append(counter, [term |-> term, count |-> 1])

\* counter[term] = counter.get(term, 0) + 1: a new key is entered last
CounterAdd(counter, term) ==
    IF KeyIndex(counter, term) = 0
    THEN Append(counter, [term |-> term, count |-> 1])
    ELSE [counter EXCEPT ![KeyIndex(counter, term)].count = @ + 1]

\* Counter(elems): the elements are counted from left to right (the test on
\* Len(counter) only makes the counter of this step be computed before the next)
RECURSIVE CounterFrom(_, _, _)
CounterFrom(counter, elems, i) ==
    IF i > Len(elems) \/ Len(counter) < 0 THEN counter
    ELSE CounterFrom(CounterAdd(counter, elems[i]), elems, i + 1)

Counter(elems) == CounterFrom(<< >>, elems, 1)

\* a slip of the sort: an item goes before the items of equal count
InsertBeforeEqual(sorted, item) ==
    LET before == {i \in 1..Len(sorted) : sorted[i].count > item.count}
        n == Cardinality(before)
    IN  SubSeq(sorted, 1, n) \o << item >> \o SubSeq(sorted, n + 1, Len(sorted))

\* one step of sorted(items, key=count, reverse=True): the sort is stable, an
\* item goes after the items of greater or equal count seen before it
InsertByCount(sorted, item) ==
    LET before == {i \in 1..Len(sorted) : sorted[i].count >= item.count}
        n == Cardinality(before)
    IN  SubSeq(sorted, 1, n) \o << item >> \o SubSeq(sorted, n + 1, Len(sorted))

\* (the test on Len(sorted) only makes the list of this step be computed
\* before the next)
RECURSIVE SortByCount(_, _, _)
SortByCount(sorted, items, i) ==
    IF i > Len(items) \/ Len(sorted) < 0 THEN sorted
    ELSE SortByCount(InsertByCount(sorted, items[i]), items, i + 1)

\* Counter.most_common(n) = heapq.nlargest(n, items, key=count)
\*                        = sorted(items, key=count, reverse=True)[:n]
most_common(counter, n) ==
    LET sorted == SortByCount(<< >>, counter, 1)
    IN  SubSeq(sorted, 1, IF Len(sorted) < n THEN Len(sorted) ELSE n)

\* the number of keywords of the bar chart
TopN == 20

\* the ten feedback texts of the sample data
SampleFeedback ==
    <<
      \* 서비스가 정말 좋습니다. 직원분들이 친절하시고 빠르게 해결해주셨어요.
      <<49436, 48708, 49828, 44032, 32, 51221, 47568, 32, 51339, 49845, 45768, 45796,
         46, 32, 51649, 50896, 48516, 46308, 51060, 32, 52828, 51208, 54616, 49884,
         44256, 32, 48736, 47476, 44172, 32, 54644, 44208, 54644, 51452, 49512, 50612,
         50836, 46>>,
      \* 배송이 너무 느려서 불만입니다. 다음에는 더 빨리 배송해주세요.
      <<48176, 49569, 51060, 32, 45320, 47924, 32, 45712, 47140, 49436, 32, 48520,
         47564, 51077, 45768, 45796, 46, 32, 45796, 51020, 50640, 45716, 32, 45908,
         32, 48744, 47532, 32, 48176, 49569, 54644, 51452, 49464, 50836, 46>>,
      \* 제품 품질은 만족스럽지만 가격이 조금 비싸네요.
      <<51228, 54408, 32, 54408, 51656, 51008, 32, 47564, 51313, 49828, 47101, 51648,
         47564, 32, 44032, 44201, 51060, 32, 51312, 44552, 32, 48708, 49912, 45348,
         50836, 46>>,
      \* 고객센터 응답이 빠르고 친절해서 감사합니다.
      <<44256, 44061, 49468, 53552, 32, 51025, 45813, 51060, 32, 48736, 47476, 44256,
         32, 52828, 51208, 54644, 49436, 32, 44048, 49324, 54633, 45768, 45796, 46>>,
      \* 웹사이트가 복잡해서 주문하기 어려웠습니다.
      <<50937, 49324, 51060, 53944, 44032, 32, 48373, 51105, 54644, 49436, 32, 51452,
         47928, 54616, 44592, 32, 50612, 47140, 50912, 49845, 45768, 45796, 46>>,
      \* 제품이 예상보다 훨씬 좋아서 만족합니다.
      <<51228, 54408, 51060, 32, 50696, 49345, 48372, 45796, 32, 55016, 50476, 32,
         51339, 50500, 49436, 32, 47564, 51313, 54633, 45768, 45796, 46>>,
      \* 배송 과정에서 제품이 손상되었습니다.
      <<48176, 49569, 32, 44284, 51221, 50640, 49436, 32, 51228, 54408, 51060, 32,
         49552, 49345, 46104, 50632, 49845, 45768, 45796, 46>>,
      \* 할인 혜택이 많아서 좋았습니다.
      <<54624, 51064, 32, 54812, 53469, 51060, 32, 47566, 50500, 49436, 32, 51339,
         50520, 49845, 45768, 45796, 46>>,
      \* 로그인이 자꾸 안되어서 불편했습니다.
      <<47196, 44536, 51064, 51060, 32, 51088, 44984, 32, 50504, 46104, 50612, 49436,
         32, 48520, 54200, 54664, 49845, 45768, 45796, 46>>,
      \* 상품 설명이 자세해서 구매 결정에 도움이 되었습니다.
      <<49345, 54408, 32, 49444, 47749, 51060, 32, 51088, 49464, 54644, 49436, 32,
         44396, 47588, 32, 44208, 51221, 50640, 32, 46020, 50880, 51060, 32, 46104,
         50632, 49845, 45768, 45796, 46>>
    >>

-----------------------------------------------------------------------------
(* The tables main is run on *)

Columns == {"date", "feedback"}

Row(d, f) == [date |-> d, feedback |-> f]

\* missing, '', '만족 aa', '불만 bb aa', 'bb'
TextPool ==
    { NaN,
      Str(<< >>),
      Str(<<47564, 51313, 32, 97, 97>>),
      Str(<<48520, 47564, 32, 98, 98, 32, 97, 97>>),
      Str(<<98, 98>>) }

\* missing, '2023-12-31', '2024-01-15', 'n/a'
DatePool ==
    { NaN,
      Str(<<50, 48, 50, 51, 45, 49, 50, 45, 51, 49>>),
      Str(<<50, 48, 50, 52, 45, 48, 49, 45, 49, 53>>),
      Str(<<110, 47, 97>>) }

RowPool == {Row(d, f) : d \in DatePool, f \in TextPool}

GeneratedTables == UNION {[1..n -> RowPool] : n \in 0..MaxRows}

\* '제품이 좋습니다', '배송이 너무 느려서 불만입니다', '보통입니다', without dates
ExampleTable ==
    << Row(NaN, Str(<<51228, 54408, 51060, 32, 51339, 49845, 45768, 45796>>)),
       Row(NaN, Str(<<48176, 49569, 51060, 32, 45320, 47924, 32, 45712, 47140, 49436, 32,
                      48520, 47564, 51077, 45768, 45796>>)),
       Row(NaN, Str(<<48372, 53685, 51077, 45768, 45796>>)) >>

\* rows 0-9, 31 and 60 of the sample frame: 'date' is a datetime column that
\* starts at 2024-01-01, one day per row, 'feedback' repeats the ten texts
SampleTable ==
    [i \in 1..10 |-> Row(Timestamp(<< 2024, 1, i >>), Str(SampleFeedback[i]))]
    \o << Row(Timestamp(<< 2024, 2, 1 >>), Str(SampleFeedback[2])),
          Row(Timestamp(<< 2024, 3, 1 >>), Str(SampleFeedback[1])) >>

\* an upload with 'Good good' / 'good', the dates '2024-02-30' (no such day),
\* '2024-02-29' and '2023-02-28', and a text that reads as a date
MixedTable ==
    << Row(Str(<<50, 48, 50, 52, 45, 48, 50, 45, 51, 48>>),
           Str(<<71, 111, 111, 100, 32, 103, 111, 111, 100>>)),
       Row(Str(<<50, 48, 50, 52, 45, 48, 50, 45, 50, 57>>),
           Str(<<103, 111, 111, 100>>)),
       Row(Str(<<50, 48, 50, 51, 45, 48, 50, 45, 50, 56>>),
           Str(<<50, 48, 50, 52, 45, 48, 49, 45, 49, 53>>)) >>

Tables == GeneratedTables \cup {ExampleTable, SampleTable, MixedTable}

FnIdle ==
    /\ text = NaN
    /\ label = "unset"
    /\ words = << >>
    /\ fpc = "idle"

Init ==
    /\ raw \in Tables
    /\ df = raw
    /\ text_column = NONE_COLUMN
    /\ date_column = NONE_COLUMN
    /\ sentiment = << >>
    /\ kidx = 0
    /\ all_keywords = << >>
    /\ keyword_counts = << >>
    /\ top_keywords = << >>
    /\ month = << >>
    /\ monthly_sentiment = [present |-> FALSE, index |-> << >>, columns |-> << >>, data |-> << >>]
    /\ pc = "select"
    /\ FnIdle

-----------------------------------------------------------------------------
(* main, lines 151-257 *)

\* line 151: nothing is analysed when the frame is empty
EmptyFrame ==
    /\ pc = "select"
    /\ df = << >>
    /\ pc' = "done"
    /\ UNCHANGED << raw, df, text_column, date_column, sentiment, kidx, all_keywords,
                    keyword_counts, top_keywords, month, monthly_sentiment >>
    /\ UNCHANGED fnvars

\* lines 156-170: the two select boxes
SelectColumns ==
    /\ pc = "select"
    /\ df # << >>
    /\ \E tc \in Columns, dc \in {NONE_COLUMN} \cup Columns :
          /\ text_column' = tc
          /\ date_column' = dc
    /\ pc' = "coerce"
    /\ UNCHANGED << raw, df, sentiment, kidx, all_keywords, keyword_counts, top_keywords,
                    month, monthly_sentiment >>
    /\ UNCHANGED fnvars

\* lines 172-173: df[date_column] = pd.to_datetime(df[date_column], errors='coerce')
CoerceDateColumn ==
    /\ pc = "coerce"
    /\ date_column # NONE_COLUMN
    /\ df' = [i \in 1..Len(df) |-> [df[i] EXCEPT ![date_column] = to_datetime(@)]]
    /\ pc' = "sentiment"
    /\ UNCHANGED << raw, text_column, date_column, sentiment, kidx, all_keywords,
                    keyword_counts, top_keywords, month, monthly_sentiment >>
    /\ UNCHANGED fnvars

\* line 172, no date column selected
NoDateColumn ==
    /\ pc = "coerce"
    /\ date_column = NONE_COLUMN
    /\ pc' = "sentiment"
    /\ UNCHANGED << raw, df, text_column, date_column, sentiment, kidx, all_keywords,
                    keyword_counts, top_keywords, month, monthly_sentiment >>
    /\ UNCHANGED fnvars

\* line 182: df['sentiment'] = df[text_column].apply(analyze_sentiment); line 215
ApplySentiment ==
    /\ pc = "sentiment"
    /\ sentiment' = [i \in 1..Len(df) |-> analyze_sentiment(df[i][text_column])]
    /\ all_keywords' = << >>
    /\ kidx' = 1
    /\ pc' = "keywords"
    /\ UNCHANGED << raw, df, text_column, date_column, keyword_counts, top_keywords,
                    month, monthly_sentiment >>
    /\ UNCHANGED fnvars

\* lines 216-218: one iteration of the loop over df[text_column].dropna()
ExtendKeywords ==
    /\ pc = "keywords"
    /\ LET texts == dropna(Column(df, text_column), 1)
       IN  /\ kidx <= Len(texts)
           /\ all_keywords' = all_keywords \o extract_keywords(texts[kidx])
    /\ kidx' = kidx + 1
    /\ UNCHANGED << raw, df, text_column, date_column, sentiment, keyword_counts,
                    top_keywords, month, monthly_sentiment, pc >>
    /\ UNCHANGED fnvars

\* lines 220-221, after the loop
CountKeywords ==
    /\ pc = "keywords"
    /\ kidx > Len(dropna(Column(df, text_column), 1))
    /\ keyword_counts' = Counter(all_keywords)
    /\ top_keywords' = most_common(Counter(all_keywords), TopN)
    /\ pc' = "monthly"
    /\ UNCHANGED << raw, df, text_column, date_column, sentiment, kidx, all_keywords,
                    month, monthly_sentiment >>
    /\ UNCHANGED fnvars

\* line 252
HasDates ==
    /\ date_column # NONE_COLUMN
    /\ ~ \A i \in 1..Len(df) : isna(df[i][date_column])

\* lines 256-257
MonthlySentiment ==
    /\ pc = "monthly"
    /\ HasDates
    /\ month' = [i \in 1..Len(df) |-> to_period_M(df[i][date_column])]
    /\ monthly_sentiment' =
          groupby_size_unstack([i \in 1..Len(df) |-> to_period_M(df[i][date_column])], sentiment)
    /\ pc' = "done"
    /\ UNCHANGED << raw, df, text_column, date_column, sentiment, kidx, all_keywords,
                    keyword_counts, top_keywords >>
    /\ UNCHANGED fnvars

\* line 252, no date column or no valid date
NoMonthlySentiment ==
    /\ pc = "monthly"
    /\ ~ HasDates
    /\ pc' = "done"
    /\ UNCHANGED << raw, df, text_column, date_column, sentiment, kidx, all_keywords,
                    keyword_counts, top_keywords, month, monthly_sentiment >>
    /\ UNCHANGED fnvars

Next ==
    \/ EmptyFrame
    \/ SelectColumns
    \/ CoerceDateColumn
    \/ NoDateColumn
    \/ ApplySentiment
    \/ ExtendKeywords
    \/ CountKeywords
    \/ MonthlySentiment
    \/ NoMonthlySentiment

Spec == Init /\ [][Next]_vars

-----------------------------------------------------------------------------
(* Vocabulary of the properties *)

Labels == {POSITIVE, NEGATIVE, NEUTRAL}

\* w occurs in t at position k
OccursAt(w, t, k) == k + Len(w) - 1 <= Len(t) /\ \A j \in 1..Len(w) : t[k + j - 1] = w[j]

\* the text with its Latin capitals replaced by small letters
Lowercased(t) == [i \in 1..Len(t) |-> IF t[i] \in 65..90 THEN t[i] + 32 ELSE t[i]]

\* number of terms of the list that occur as a substring of the lowercased text
Hits(word_list, t) ==
    Cardinality({i \in 1..Len(word_list) :
                    \E k \in 1..Len(t) : OccursAt(word_list[i], Lowercased(t), k)})

IsNullOrEmpty(v) == v = NaN \/ v = Str(<< >>)

StopwordSet == {stopwords[i] : i \in 1..Len(stopwords)}

called == fpc \in {"classified", "extracted"}

\* number of positions of seq that hold x
Occ(seq, x) == Cardinality({i \in 1..Len(seq) : seq[i] = x})

\* first position of seq that holds x
FirstPos(seq, x) == CHOOSE i \in 1..Len(seq) : seq[i] = x /\ \A j \in 1..(i - 1) : seq[j] # x

\* count of term in a frequency table, 0 when it is no key
CountOf(table, term) ==
    IF \E i \in 1..Len(table) : table[i].term = term
    THEN (CHOOSE e \in {table[i] : i \in 1..Len(table)} : e.term = term).count
    ELSE 0

Keys(table) == {table[i].term : i \in 1..Len(table)}

RECURSIVE SumOfCounts(_, _)
SumOfCounts(table, i) ==
    IF i > Len(table) THEN 0 ELSE table[i].count + SumOfCounts(table, i + 1)

counted == pc \in {"monthly", "done"} /\ text_column # NONE_COLUMN

-----------------------------------------------------------------------------
(* C1 *)

\* C1: analyze_sentiment returns one of the three labels for every text:
\* Neutral for a null or empty text; otherwise Positive iff more positive
\* than negative terms occur in the lowercased text, Negative iff more
\* negative than positive terms occur, Neutral iff as many of each occur.
C1_SentimentDecision ==
    called =>
        /\ label \in Labels
        /\ IsNullOrEmpty(text) => label = NEUTRAL
        /\ ~ IsNullOrEmpty(text) =>
              LET p == Hits(positive_words, text.s)
                  n == Hits(negative_words, text.s)
              IN  /\ label = POSITIVE <=> p > n
                  /\ label = NEGATIVE <=> n > p
                  /\ label = NEUTRAL <=> p = n

\* '불만족' holds one negative and one positive term and is Neutral
C1_Witness ==
    /\ called
    /\ text = Str(<<48520, 47564, 51313>>)
    /\ Hits(positive_words, text.s) = 1
    /\ Hits(negative_words, text.s) = 1
    /\ label = NEUTRAL

-----------------------------------------------------------------------------
(* C3 *)

IsTieText(v, i, j) == v = Str(positive_words[i] \o <<32>> \o negative_words[j])

\* C3 as stated: the text made of a positive term, a space and a negative
\* term is Neutral, for every positive and every negative term.
C3_TieEveryPair ==
    \A i \in 1..Len(positive_words), j \in 1..Len(negative_words) :
        (called /\ IsTieText(text, i, j)) => label = NEUTRAL

\* '훌륭한', '친절', '불친절'
HullyunghanTerm == <<54988, 47469, 54620>>
ChinjeolTerm == <<52828, 51208>>
BulchinjeolTerm == <<48520, 52828, 51208>>

\* C3, amended: the text made of a positive term p, a space and a negative
\* term n is Neutral, except that it is Positive when p is '훌륭한' (the
\* positive term '훌륭' occurs in it as well) or when n is '불친절' and p is
\* not '친절' (the positive term '친절' occurs in '불친절').
C3_TieExceptOverlaps ==
    \A i \in 1..Len(positive_words), j \in 1..Len(negative_words) :
        (called /\ IsTieText(text, i, j)) =>
            label = IF \/ positive_words[i] = HullyunghanTerm
                       \/ (negative_words[j] = BulchinjeolTerm /\ positive_words[i] # ChinjeolTerm)
                    THEN POSITIVE ELSE NEUTRAL

\* '훌륭한 불만' has been classified
C3_Witness ==
    /\ called
    /\ text = Str(HullyunghanTerm \o <<32, 48520, 47564>>)
    /\ label = POSITIVE

-----------------------------------------------------------------------------
(* C4 *)

\* C4: every token returned by extract_keywords is a non-empty string of
\* at least two characters that is no stopword; a null or empty text gives
\* the empty sequence.
C4_KeywordTokens ==
    fpc = "extracted" =>
        /\ \A k \in 1..Len(words) :
              /\ words[k] # << >>
              /\ Len(words[k]) >= 2
              /\ words[k] \notin StopwordSet
        /\ IsNullOrEmpty(text) => words = << >>

\* 'Good 에서 good! a 만 b2' gives Good, good, b2: the stopwords '에서' and
\* '만' and the single letter are dropped
C4_Witness ==
    /\ fpc = "extracted"
    /\ text = Str(CraftedText)
    /\ words = << <<71, 111, 111, 100>>, <<103, 111, 111, 100>>, <<98, 50>> >>

-----------------------------------------------------------------------------
(* C5 *)

\* C5: no token returned by extract_keywords holds an uppercase Latin
\* letter, and a text yields the same keyword sequence as the same text
\* written in lowercase.
C5_KeywordsLowercased ==
    (fpc = "extracted" /\ text.kind = "str") =>
        /\ \A k \in 1..Len(words) : \A i \in 1..Len(words[k]) : words[k][i] \notin 65..90
        /\ words = extract_keywords(Str(Lowercased(text.s)))

-----------------------------------------------------------------------------
(* C2 *)

ExampleRun ==
    /\ pc = "done"
    /\ raw = ExampleTable
    /\ text_column = "feedback"
    /\ date_column = NONE_COLUMN

\* C2 as stated: the example records get the labels Positive, Negative,
\* Neutral, the frequency table holds '제품' and '배송' with count 1 and no
\* key of one character.
C2_ExampleAsStated ==
    ExampleRun =>
        /\ sentiment = << POSITIVE, NEGATIVE, NEUTRAL >>
        /\ CountOf(keyword_counts, <<51228, 54408>>) = 1
        /\ CountOf(keyword_counts, <<48176, 49569>>) = 1
        /\ \A t \in Keys(keyword_counts) : Len(t) # 1

\* C2, amended: the example records get the labels Neutral, Negative,
\* Neutral ('좋다' is no substring of '제품이 좋습니다'), the frequency table
\* holds the tokens '제품이' and '배송이' with count 1 ('제품' and '배송' are
\* no keys) and no key of one character.
C2_Example ==
    ExampleRun =>
        /\ sentiment = << NEUTRAL, NEGATIVE, NEUTRAL >>
        /\ CountOf(keyword_counts, <<51228, 54408, 51060>>) = 1
        /\ CountOf(keyword_counts, <<48176, 49569, 51060>>) = 1
        /\ <<51228, 54408>> \notin Keys(keyword_counts)
        /\ <<48176, 49569>> \notin Keys(keyword_counts)
        /\ \A t \in Keys(keyword_counts) : Len(t) # 1

\* the example has been run and its seven tokens counted
C2_Witness == ExampleRun /\ Len(keyword_counts) = 7 /\ Len(sentiment) = 3

-----------------------------------------------------------------------------
(* C6 *)

\* a ranks before b: greater count, or equal count and seen first
RanksBefore(a, b) ==
    \/ Occ(all_keywords, a) > Occ(all_keywords, b)
    \/ /\ Occ(all_keywords, a) = Occ(all_keywords, b)
       /\ FirstPos(all_keywords, a) < FirstPos(all_keywords, b)

\* C6: the ranked keyword list is ordered by descending count, terms of
\* equal count by their first occurrence in the concatenated keyword
\* sequences; it is the first 20 entries of the full ranking, and empty
\* when there is no keyword.
C6_Ranking ==
    counted =>
        LET terms == {all_keywords[i] : i \in 1..Len(all_keywords)}
            n == Len(top_keywords)
        IN  /\ n = (IF Cardinality(terms) < TopN THEN Cardinality(terms) ELSE TopN)
            /\ \A i \in 1..n :
                  /\ top_keywords[i].term \in terms
                  /\ top_keywords[i].count = Occ(all_keywords, top_keywords[i].term)
            /\ \A i \in 1..n : \A j \in (i + 1)..n :
                  RanksBefore(top_keywords[i].term, top_keywords[j].term)
            /\ \A x \in terms \ Keys(top_keywords) : \A i \in 1..n :
                  RanksBefore(top_keywords[i].term, x)

\* more than 20 distinct keywords, a list of 20 with a tie inside it and a
\* more frequent term that was seen later than a less frequent one
C6_Witness ==
    /\ counted
    /\ Len(keyword_counts) > TopN
    /\ Len(top_keywords) = TopN
    /\ top_keywords[1].count = top_keywords[2].count
    /\ \E i \in 1..TopN, j \in 1..TopN :
          /\ i < j
          /\ FirstPos(all_keywords, top_keywords[i].term) > FirstPos(all_keywords, top_keywords[j].term)

-----------------------------------------------------------------------------
(* C7 *)

\* the rows whose text is not null, as the loop of main reads them
TextRows == {i \in 1..Len(df) : ~ isna(df[i][text_column])}

RECURSIVE SumOver(_, _)
SumOver(S, f) ==
    IF S = {} THEN 0
    ELSE LET i == CHOOSE x \in S : TRUE IN f[i] + SumOver(S \ {i}, f)

\* C7: the counts of the frequency table add up to the number of tokens
\* extract_keywords returns over the rows with a non-null text, and the
\* count of each term is the number of its occurrences in those sequences.
C7_CountsAddUp ==
    counted =>
        LET kw == [i \in 1..Len(df) |->
                     IF i \in TextRows THEN extract_keywords(df[i][text_column]) ELSE << >>]
        IN  /\ SumOfCounts(keyword_counts, 1) = SumOver(1..Len(df), [i \in 1..Len(df) |-> Len(kw[i])])
            /\ \A e \in 1..Len(keyword_counts) :
                  keyword_counts[e].count =
                     SumOver(1..Len(df), [i \in 1..Len(df) |-> Occ(kw[i], keyword_counts[e].term)])
            /\ \A i \in 1..Len(df) : \A k \in 1..Len(kw[i]) : kw[i][k] \in Keys(keyword_counts)

\* two rows with keywords, a term counted twice, a row with a null text
C7_Witness ==
    /\ counted
    /\ \E e \in 1..Len(keyword_counts) : keyword_counts[e].count >= 2
    /\ Cardinality(TextRows) >= 2
    /\ \E i \in 1..Len(df) : isna(df[i][text_column])

-----------------------------------------------------------------------------
(* C8 *)

tabulated == pc = "done" /\ monthly_sentiment.present

\* the rows with a valid timestamp
DatedRows == {i \in 1..Len(df) : df[i][date_column].kind = "ts"}

MonthOf(i) == << df[i][date_column].date[1], df[i][date_column].date[2] >>

RowTotal(mo) ==
    SumOver({c \in 1..Len(monthly_sentiment.columns) : TRUE},
            [c \in 1..Len(monthly_sentiment.columns) |->
                monthly_sentiment.data[<< mo, monthly_sentiment.columns[c] >>]])

\* C8: the counts of a month bucket add up, over the labels, to the number
\* of rows with a valid timestamp in that month; rows without a valid
\* timestamp are in no bucket; there is a bucket exactly for the months of
\* some such row; the buckets are in ascending chronological order.
C8_MonthTotals ==
    tabulated =>
        LET index == monthly_sentiment.index
        IN  /\ {index[k] : k \in 1..Len(index)} = {MonthOf(i) : i \in DatedRows}
            /\ \A k \in 1..Len(index) :
                  RowTotal(index[k]) = Cardinality({i \in DatedRows : MonthOf(i) = index[k]})
            /\ \A k \in 1..Len(index) : \A l \in (k + 1)..Len(index) :
                  \/ index[k][1] < index[l][1]
                  \/ (index[k][1] = index[l][1] /\ index[k][2] < index[l][2])

\* two buckets, of different years, the later month in an earlier row, and a
\* row whose timestamp is not valid
C8_Witness ==
    /\ tabulated
    /\ Len(monthly_sentiment.index) = 2
    /\ monthly_sentiment.index[1][1] < monthly_sentiment.index[2][1]
    /\ \E i \in DatedRows, j \in DatedRows : i < j /\ MonthOf(i) = monthly_sentiment.index[2]
                                              /\ MonthOf(j) = monthly_sentiment.index[1]
    /\ DatedRows # 1..Len(df)

-----------------------------------------------------------------------------
(* C9 *)

\* C9: every month bucket has a count for each of the three labels, 0 when
\* no row of the month has the label.
C9_EveryLabelPresent ==
    tabulated =>
        \A k \in 1..Len(monthly_sentiment.index) : \A lab \in Labels :
            /\ << monthly_sentiment.index[k], lab >> \in DOMAIN monthly_sentiment.data
            /\ monthly_sentiment.data[<< monthly_sentiment.index[k], lab >>] =
                  Cardinality({i \in DatedRows : /\ MonthOf(i) = monthly_sentiment.index[k]
                                                 /\ sentiment[i] = lab})

-----------------------------------------------------------------------------
(* C10 *)

RECURSIVE KeywordsOfTable(_, _, _)
KeywordsOfTable(table, c, i) ==
    IF i > Len(table) THEN << >>
    ELSE (IF isna(table[i][c]) THEN << >> ELSE extract_keywords(table[i][c]))
         \o KeywordsOfTable(table, c, i + 1)

\* C10: whichever date column is selected, the label of each row is
\* analyze_sentiment of the row's original text, and the keywords are
\* extract_keywords of the original texts.
C10_DateColumnNoEffect ==
    /\ (pc \in {"keywords", "monthly", "done"} /\ text_column # NONE_COLUMN) =>
          /\ Len(sentiment) = Len(raw)
          /\ \A i \in 1..Len(raw) : sentiment[i] = analyze_sentiment(raw[i][text_column])
    /\ counted => all_keywords = KeywordsOfTable(raw, text_column, 1)

=============================================================================
